---------------------------- MODULE Spec2Model ----------------------------
(***************************************************************************)
(* A model of the DocRight service (FarsiAI_text): the in-memory rate      *)
(* limiter and the /api/convert handler of app/main.py, the converter of   *)
(* app/converter.py (temporary workspaces, the external pandoc process,    *)
(* the output directory and its cleanup sweep).                            *)
(*                                                                         *)
(* Time is a counter of abstract ticks.  One tick is the resolution of     *)
(* the output-file timestamp (a millisecond in the source); the rate       *)
(* window and the file age are scaled down to a few ticks.                 *)
(***************************************************************************)
EXTENDS Integers, Sequences, FiniteSets, TLC

(***************************************************************************)
(* Bounds of the model.                                                    *)
(***************************************************************************)
\* the clock runs from 0 to MaxTime
MaxTime == 4
\* number of conversion requests (each job is one request)
NJobs == 2

(***************************************************************************)
(* Program constants, scaled to ticks.                                     *)
(***************************************************************************)
\* settings.RATE_LIMIT: admitted requests per window and client
RATE_LIMIT == 2
\* timedelta(minutes=1): the length of the rate window
Minute == 3
\* MAX_FILE_AGE_HOURS: age after which the sweep deletes a file
MAX_FILE_AGE_HOURS == 2
\* asyncio.wait_for(..., timeout=120.0): how long pandoc may run
PROC_TIMEOUT == 1

Clients == {"10.0.0.1", "10.0.0.2"}
Jobs == 1..NJobs
Times == 0..MaxTime
None == "None"

VARIABLES
  now,        \* datetime.now() / time.time()
  requests,   \* RateLimiter.requests: client -> list of timestamps
  admitted,   \* history: client -> timestamp -> number of admitted calls
  lastCall,   \* history: the most recent is_rate_limited call, its result,
              \* and whether the call before it was a rejected one of the
              \* same client (retry)
  calls,      \* thread -> where its call of is_rate_limited is, and its locals
  overlapped, \* history: a call began while another one was in progress
  pc,         \* job -> where the request is
  job,        \* job -> the request's inputs, locals and outcome
  files,      \* the filesystem: path -> [mtime, by, whole]
  tempfs,     \* the temporary workspaces that exist on disk
  temp_dirs,  \* EnhancedConverter._temp_dirs
  conversion_stats,  \* EnhancedConverter.conversion_stats (the success flags)
  refGenerated,      \* history: number of reference documents generated
  sweep,      \* the cleanup sweep in progress, if any
  sweepLog,   \* history: what sweeps deleted
  tin,        \* the text a function of text_processor.py was called with
  tout,       \* what the call returned
  tcall       \* which function was called, and how the call went

rateVars == <<requests, admitted, lastCall, calls, overlapped>>
convVars == <<pc, job, tempfs, temp_dirs, conversion_stats, refGenerated>>
sweepVars == <<sweep, sweepLog>>
textVars == <<tin, tout, tcall>>
vars == <<now, rateVars, convVars, files, sweepVars, textVars>>

(***************************************************************************)
(* RateLimiter (app/main.py)                                               *)
(***************************************************************************)
\* minute_ago = now - timedelta(minutes=1)
minute_ago == now - Minute

\* the list of ip after lines 48-51: created empty, or filtered ts > minute_ago
Recent(ip) ==
  IF ip \notin DOMAIN requests
    THEN << >>
    ELSE SelectSeq(requests[ip], LAMBDA ts : ts > minute_ago)

\* a plausible slip: the comparison with the limit off by one
LimitReachedOffByOne(ip) == Len(Recent(ip)) > RATE_LIMIT

\* line 53: len(self.requests[ip]) >= self.limit
LimitReached(ip) == Len(Recent(ip)) >= RATE_LIMIT

\* the call that follows a rejected call of the same client
Retry(ip) == lastCall.ip = ip /\ lastCall.limited

\* a plausible slip: the timestamp appended before the limit is checked, so
\* that rejected calls are recorded too
is_rate_limited_recording(ip) ==
  /\ requests' = (ip :> Append(Recent(ip), now)) @@ requests
  /\ admitted' = IF LimitReached(ip)
                   THEN admitted
                   ELSE [admitted EXCEPT ![ip][now] = @ + 1]
  /\ lastCall' = [ip |-> ip, at |-> now, limited |-> LimitReached(ip),
                  retry |-> Retry(ip)]
  /\ UNCHANGED <<calls, overlapped>>

\* is_rate_limited(ip): the whole call; its return value is LimitReached(ip)
is_rate_limited(ip) ==
  /\ requests' = (ip :> (IF LimitReached(ip)
                           THEN Recent(ip)
                           ELSE Append(Recent(ip), now))) @@ requests
  /\ admitted' = IF LimitReached(ip)
                   THEN admitted
                   ELSE [admitted EXCEPT ![ip][now] = @ + 1]
  /\ lastCall' = [ip |-> ip, at |-> now, limited |-> LimitReached(ip),
                  retry |-> Retry(ip)]
  /\ UNCHANGED <<calls, overlapped>>

(***************************************************************************)
(* is_rate_limited statement by statement: the threads that call it may    *)
(* be suspended between any two statements (no lock guards the table)      *)
(***************************************************************************)
Threads == {"T1", "T2"}

IdleCall == [pc |-> "idle", ip |-> None, now |-> 0]

\* the thread goes on to statement at
Goto(t, at) == calls' = [calls EXCEPT ![t].pc = at]

\* what the statements of one thread leave alone
CallStep == UNCHANGED <<now, textVars, convVars, files, sweepVars, overlapped>>

\* lines 45-46: now = datetime.now(); minute_ago = now - timedelta(minutes=1)
Enter(t, ip) ==
  /\ calls[t].pc = "idle"
  /\ calls' = [calls EXCEPT ![t] = [pc |-> "test", ip |-> ip, now |-> now]]
  /\ overlapped' = (overlapped \/ \E u \in Threads : calls[u].pc # "idle")
  /\ UNCHANGED <<now, textVars, convVars, files, sweepVars, requests,
                 admitted, lastCall>>

\* line 48: if ip not in self.requests
TestKnown(t) ==
  /\ calls[t].pc = "test"
  /\ Goto(t, IF calls[t].ip \in DOMAIN requests THEN "filter" ELSE "create")
  /\ CallStep /\ UNCHANGED <<requests, admitted, lastCall>>

\* line 49: self.requests[ip] = []
Create(t) ==
  /\ calls[t].pc = "create"
  /\ requests' = (calls[t].ip :> << >>) @@ requests
  /\ Goto(t, "check")
  /\ CallStep /\ UNCHANGED <<admitted, lastCall>>

\* line 51: self.requests[ip] = [ts for ts in self.requests[ip] if ts > minute_ago]
Filter(t) ==
  /\ calls[t].pc = "filter"
  /\ requests' = [requests EXCEPT ![calls[t].ip] =
                    SelectSeq(@, LAMBDA ts : ts > calls[t].now - Minute)]
  /\ Goto(t, "check")
  /\ CallStep /\ UNCHANGED <<admitted, lastCall>>

\* a plausible slip: the comparison with the limit off by one
LengthCheckOffByOne(list) == Len(list) > RATE_LIMIT

\* line 53: len(self.requests[ip]) >= self.limit
LengthCheck(list) == Len(list) >= RATE_LIMIT

\* lines 53-54: if the limit is reached, return True
Check(t) ==
  /\ calls[t].pc = "check"
  /\ IF LengthCheck(requests[calls[t].ip])
       THEN /\ calls' = [calls EXCEPT ![t] = IdleCall]
            /\ lastCall' = [ip |-> calls[t].ip, at |-> calls[t].now,
                            limited |-> TRUE, retry |-> Retry(calls[t].ip)]
       ELSE Goto(t, "append") /\ UNCHANGED lastCall
  /\ CallStep /\ UNCHANGED <<requests, admitted>>

\* lines 56-57: self.requests[ip].append(now); return False
AppendNow(t) ==
  /\ calls[t].pc = "append"
  /\ requests' = [requests EXCEPT ![calls[t].ip] = Append(@, calls[t].now)]
  /\ admitted' = [admitted EXCEPT ![calls[t].ip][calls[t].now] = @ + 1]
  /\ lastCall' = [ip |-> calls[t].ip, at |-> calls[t].now, limited |-> FALSE,
                  retry |-> Retry(calls[t].ip)]
  /\ calls' = [calls EXCEPT ![t] = IdleCall]
  /\ CallStep



(***************************************************************************)
(* Paths.  uuid4 and mkdtemp give every request a name of its own, so the  *)
(* request number stands for them; the converter's output file is named    *)
(* after the clock alone.                                                  *)
(***************************************************************************)
NoPath == [k |-> "none", n |-> 0]
\* main.py 130: md_file = OUT_DIR/{uid}.md
md_file(j) == [k |-> "md", n |-> j]
\* main.py 132: out_file = OUT_DIR/{uid}.{format}
out_file(j) == [k |-> "docx", n |-> j]
\* the out_path a script hands to render_markdown (a file of its own)
caller_out(j) == [k |-> "caller", n |-> j]
\* a file in OUT_DIR that the service did not generate
Foreign == [k |-> "other", n |-> 0]
\* converter.py 311-313: output_{timestamp}.{format} under OUT_DIR
output_path(t) == [k |-> "output", n |-> t]

\* os.scandir(OUT_DIR) sees the file
InOutDir(p) == p.k \in {"md", "docx", "output", "other"}

(***************************************************************************)
(* Inputs and outcomes of a request                                        *)
(***************************************************************************)
\* config.py 21
ALLOWED_FORMATS == {"docx"}
Formats == {"docx", "pdf"}
\* the text: fine, empty or whitespace only, larger than MAX_INPUT_SIZE
Texts == {"ok", "blank", "big"}
\* what pandoc writes to stderr, captured by render_markdown_async (line 336)
ConverterText == "pandoc: stderr"

NoResponse == [status |-> 0, detail |-> ""]
\* rtl_applied: a post-processor has put the bidirectional flags into the
\* document that the call returns
IdleJob ==
  [kind |-> None, temp_dir |-> 0, output_path |-> NoPath, wrote |-> FALSE,
   ran |-> FALSE, exc |-> None, result |-> NoPath, served |-> 0,
   rtl_applied |-> FALSE, response |-> NoResponse]

\* str(e) of the exceptions the conversion raises
Str(e) ==
  CASE e = "ValueError" -> "Content is empty or unsupported format"
    [] e = "CalledProcessError" -> "Command returned non-zero exit status 1."
    [] e = "TimeoutExpired" -> "Command timed out after 120 seconds"
    [] e = "FileNotFoundError" -> "No such file or directory: 'pandoc'"
    [] e = "RuntimeError" -> "Output file not created / loop already running"
    [] OTHER -> ""

\* converter.py 338: only CalledProcessError carries the captured stderr
Stderr(e) == IF e = "CalledProcessError" THEN ConverterText ELSE ""

(***************************************************************************)
(* The handler's except clauses (main.py 156-172)                          *)
(***************************************************************************)
\* main.py 1-16: the module never imports subprocess
SubprocessImported == FALSE

\* which clause handles exception e raised by render_markdown
HandlerBranch(e) ==
  CASE e = None -> "return"
    [] e = "ValueError" -> "format"
    [] e # None /\ e # "ValueError" /\ ~SubprocessImported -> "NameError"
    [] e \in {"CalledProcessError", "TimeoutExpired"} /\ SubprocessImported
         -> "pandoc"
    [] OTHER -> "unexpected"

\* a plausible slip: the converter's diagnostics passed on to the client
HandlerResponseLeaky(e) ==
  CASE HandlerBranch(e) = "return" -> [status |-> 200, detail |-> "farsi_text.docx"]
    [] HandlerBranch(e) = "format" -> [status |-> 400, detail |-> Str(e)]
    [] OTHER -> [status |-> 500,
                 detail |-> IF Stderr(e) # "" THEN Stderr(e) ELSE Str(e)]

\* the response of /api/convert once render_markdown returned or raised e;
\* a NameError raised by the clause at line 159 reaches
\* global_exception_handler (lines 175-184)
HandlerResponse(e) ==
  CASE HandlerBranch(e) = "return" -> [status |-> 200, detail |-> "farsi_text.docx"]
    [] HandlerBranch(e) = "format" -> [status |-> 400, detail |-> Str(e)]
    [] HandlerBranch(e) = "pandoc" ->
         [status |-> 500,
          detail |-> "Conversion failed due to an internal processing error."]
    [] HandlerBranch(e) = "unexpected" ->
         [status |-> 500,
          detail |-> "An unexpected error occurred during conversion."]
    [] OTHER -> [status |-> 500,
                 detail |-> "An unexpected internal error occurred."]

\* main.py 166-171: the files the handler removes after exception e
HandlerRemoves(j, e) ==
  IF HandlerBranch(e) = "unexpected" THEN {md_file(j), out_file(j)} ELSE {}

(***************************************************************************)
(* Files                                                                   *)
(***************************************************************************)
Exists(fs, p) == p \in DOMAIN fs
Write(fs, p, f) == [q \in DOMAIN fs \cup {p} |-> IF q = p THEN f ELSE fs[q]]
Remove(fs, ps) == [q \in DOMAIN fs \ ps |-> fs[q]]
\* shutil.move(src, dst): dst takes the file of src, src is gone
Move(fs, src, dst) ==
  [q \in (DOMAIN fs \ {src}) \cup {dst} |-> IF q = dst THEN fs[src] ELSE fs[q]]

(***************************************************************************)
(* EnhancedConverter.render_markdown_async (converter.py 292-389) and its  *)
(* callers: render_markdown (543-562), convert (main.py 104-173)           *)
(***************************************************************************)
\* a text with a code point that UTF-8 cannot encode (a lone surrogate, as
\* json.loads gives for "\ud800"): content.encode('utf-8') of line 300
\* raises UnicodeEncodeError
Unencodable == "surrogate"

\* convert (main.py 105) is a coroutine function: the server's event loop is
\* running it when it calls render_markdown (main.py 145); a script calls
\* render_markdown from plain code
LoopRunning(kind) == kind = "http"

\* The call up to its first suspension (lines 297-325), as the exception it
\* raises there, if any, and what it did before:
\*   loopRunning  loop.run_until_complete (line 399) refuses a loop that is
\*                already running; the coroutine is then never started
\*   exeMissing   the pandoc executable is gone (FileNotFoundError)
\*   refOk        _create_reference_docx produced its document
Prefix(f, t, loopRunning, exeMissing, refOk) ==
  CASE ~loopRunning /\ t = Unencodable ->
         [ran |-> TRUE, temp |-> FALSE, ref |-> FALSE,
          exc |-> "UnicodeEncodeError"]
    [] loopRunning ->
         [ran |-> FALSE, temp |-> FALSE, ref |-> FALSE, exc |-> "RuntimeError"]
    [] ~loopRunning /\ t = "blank" ->
         [ran |-> TRUE, temp |-> FALSE, ref |-> FALSE, exc |-> "ValueError"]
    [] ~loopRunning /\ t \notin {"blank", Unencodable}
         /\ f \notin ALLOWED_FORMATS ->
         [ran |-> TRUE, temp |-> TRUE, ref |-> FALSE, exc |-> "ValueError"]
    [] ~loopRunning /\ t \notin {"blank", Unencodable}
         /\ f \in ALLOWED_FORMATS /\ exeMissing ->
         [ran |-> TRUE, temp |-> TRUE, ref |-> FALSE, exc |-> "FileNotFoundError"]
    [] OTHER ->
         [ran |-> TRUE, temp |-> TRUE, ref |-> refOk, exc |-> None]

\* lines 365-383: the handler appends the record of a failed call after it
\* has computed len(content.encode('utf-8')) (line 371), which raises again
\* what line 300 raised for a text that cannot be encoded
Recorded(e) == e # "UnicodeEncodeError"

\* a plausible slip: the workspace removed only when the conversion succeeded
WorkspaceRemovedOnSuccess(e, td, tds) == e = None /\ td # 0 /\ td \in tds

\* lines 386-389 and _cleanup_temp_workspace (171-178): the finally block
\* removes the workspace whatever the outcome e, if it is tracked
WorkspaceRemoved(e, td, tds) == td # 0 /\ td \in tds

\* a plausible slip: a timeout treated as a finished conversion
OutcomeIgnoringTimeout(rc, timedOut, exists) ==
  CASE rc # 0 /\ ~timedOut -> "CalledProcessError"
    [] ~exists -> "RuntimeError"
    [] OTHER -> None

\* lines 327-342: what the call raises once the process has ended
Outcome(rc, timedOut, exists) ==
  CASE timedOut -> "TimeoutExpired"
    [] rc # 0 -> "CalledProcessError"
    [] ~exists -> "RuntimeError"
    [] OTHER -> None

\* The end of the call, from the outcome e on: the except and finally blocks
\* of render_markdown_async (365-389), the move in render_markdown (554-558)
\* and, for a request, the handler's response (main.py 143-184).
\* render_markdown returns out_path right after the move (line 558): it calls
\* no post-processor, and converter.py defines none.
\* jr, fs, tfs, tds: the job, the files, the workspaces on disk and the
\* tracked workspaces as they are when the call ends.
Finish(j, jr, e, fs, tfs, tds) ==
  LET ok == e = None
      dst == CASE jr.kind = "http" -> out_file(j)
               [] jr.kind = "script" -> caller_out(j)
               [] OTHER -> jr.output_path
      fs1 == IF ok /\ dst # jr.output_path
               THEN Move(fs, jr.output_path, dst) ELSE fs
      fs2 == IF jr.kind = "http"
               THEN Remove(fs1, HandlerRemoves(j, e) \cap DOMAIN fs1)
               ELSE fs1
      gone == WorkspaceRemoved(e, jr.temp_dir, tds)
  IN /\ files' = fs2
     /\ tempfs' = IF gone THEN tfs \ {jr.temp_dir} ELSE tfs
     /\ temp_dirs' = IF gone THEN tds \ {jr.temp_dir} ELSE tds
     /\ conversion_stats' =
          IF jr.ran /\ Recorded(e) THEN Append(conversion_stats, ok)
                                    ELSE conversion_stats
     /\ job' = [job EXCEPT ![j] =
          [jr EXCEPT !.exc = e,
                     !.wrote = FALSE,
                     !.result = IF ok THEN dst ELSE NoPath,
                     !.served = IF ok THEN fs[jr.output_path].by ELSE 0,
                     !.response = IF jr.kind = "http"
                                    THEN HandlerResponse(e) ELSE NoResponse]]
     /\ pc' = [pc EXCEPT ![j] = "done"]

\* render_markdown(md_path, out_path, fmt) called with inputs f, t: the call
\* starts pandoc and suspends, or ends at once with an exception
Render(j, kind, f, t, fs, exeMissing, refOk) ==
  LET pre == Prefix(f, t, LoopRunning(kind), exeMissing, refOk)
      td == IF pre.temp THEN {j} ELSE {}
      jr == [IdleJob EXCEPT !.kind = kind,
                            !.ran = pre.ran,
                            !.temp_dir = IF pre.temp THEN j ELSE 0,
                            !.output_path =
                               IF pre.temp THEN output_path(now) ELSE NoPath]
  IN /\ refGenerated' = refGenerated + (IF pre.ref THEN 1 ELSE 0)
     /\ IF pre.exc = None
          THEN /\ pc' = [pc EXCEPT ![j] = "running"]
               /\ job' = [job EXCEPT ![j] = jr]
               /\ tempfs' = tempfs \cup td
               /\ temp_dirs' = temp_dirs \cup td
               /\ files' = fs
               /\ UNCHANGED conversion_stats
          ELSE Finish(j, jr, pre.exc, fs, tempfs \cup td, temp_dirs \cup td)

\* the requests arrive one after the other
NextJob(j) == pc[j] = "idle" /\ (IF j = 1 THEN TRUE ELSE pc[j - 1] # "idle")

\* a plausible slip: the markdown file written before the request is validated
FilesAtRejectWritten(j) ==
  Write(files, md_file(j), [mtime |-> now, by |-> j, whole |-> TRUE, size |-> 1])

\* main.py 111-116 come before the write of line 137: the files as a request
\* rejected by those checks leaves them
FilesAtReject(j) == files

\* POST /api/convert from client ip: check_rate_limit (main.py 61-68), then
\* convert (104-173) and, where the handler raises something other than an
\* HTTPException, global_exception_handler (175-184)
HttpRequest(j, ip, f, t, exeMissing, refOk) ==
  /\ NextJob(j)
  /\ is_rate_limited(ip)
  /\ UNCHANGED <<textVars, now, sweepVars>>
  /\ LET reject(status, detail) ==
           /\ job' = [job EXCEPT ![j] =
                [IdleJob EXCEPT !.kind = "http",
                                !.response = [status |-> status,
                                              detail |-> detail]]]
           /\ pc' = [pc EXCEPT ![j] = "done"]
           /\ files' = FilesAtReject(j)
           /\ UNCHANGED <<tempfs, temp_dirs, conversion_stats, refGenerated>>
     IN CASE LimitReached(ip) ->
               reject(429, "Too many requests. Please try again later.")
          [] ~LimitReached(ip) /\ f \notin ALLOWED_FORMATS ->
               reject(400, "Format must be 'docx'.")
          [] ~LimitReached(ip) /\ f \in ALLOWED_FORMATS /\ t = "big" ->
               reject(413, "Input text too large")
          [] OTHER ->
               Render(j, "http", f, t,
                      Write(files, md_file(j),
                            [mtime |-> now, by |-> j, whole |-> TRUE, size |-> 1]),
                      exeMissing, refOk)

\* a script calls render_markdown(md_path, out_path, fmt) with files of its
\* own (test_docx_simple.py 45); scripts run side by side, each in a process
\* of its own, on the same OUT_DIR
ScriptCall(j, f, t, exeMissing, refOk) ==
  /\ NextJob(j)
  /\ t # "big"
  /\ Render(j, "script", f, t, files, exeMissing, refOk)
  /\ UNCHANGED <<textVars, now, rateVars, sweepVars>>

\* a task awaits render_markdown_async(content, format) itself, as
\* convert_text_async does (converter.py 570-574): the path it returns is the
\* one of line 313
AsyncCall(j, f, t, exeMissing, refOk) ==
  /\ NextJob(j)
  /\ t # "big"
  /\ Render(j, "async", f, t, files, exeMissing, refOk)
  /\ UNCHANGED <<textVars, now, rateVars, sweepVars>>

\* get_conversion_statistics (lines 401-416), the counts
get_conversion_statistics ==
  [total_conversions |-> Len(conversion_stats),
   successful |-> Len(SelectSeq(conversion_stats, LAMBDA success : success)),
   failed |-> Len(SelectSeq(conversion_stats, LAMBDA success : ~success))]

\* pandoc, still running, has written part of its output file
PandocWrite(j) ==
  /\ pc[j] = "running"
  /\ ~job[j].wrote
  /\ files' = Write(files, job[j].output_path,
                    [mtime |-> now, by |-> j, whole |-> FALSE, size |-> 1])
  /\ job' = [job EXCEPT ![j].wrote = TRUE]
  /\ UNCHANGED <<textVars, now, rateVars, sweepVars, pc, tempfs, temp_dirs,
                 conversion_stats, refGenerated>>

\* pandoc exits with status rc before the timeout; with status 0 it has
\* written its whole output (out) or none at all; the call resumes and ends
PandocExit(j, rc, out) ==
  /\ pc[j] = "running"
  /\ rc = 0 \/ ~out
  /\ (rc = 0 /\ ~out) => ~job[j].wrote
  /\ LET fs == IF out
                 THEN Write(files, job[j].output_path,
                            [mtime |-> now, by |-> j, whole |-> TRUE, size |-> 1])
                 ELSE files
     IN Finish(j, job[j], Outcome(rc, FALSE, Exists(fs, job[j].output_path)),
               fs, tempfs, temp_dirs)
  /\ UNCHANGED <<textVars, now, rateVars, sweepVars, refGenerated>>

\* the time at which the call started pandoc (its timestamp of line 311)
Started(j) == job[j].output_path.n

\* lines 329-331: wait_for times out; result.terminate(), await result.wait()
Timeout(j) ==
  /\ pc[j] = "running"
  /\ now - Started(j) >= PROC_TIMEOUT
  /\ pc' = [pc EXCEPT ![j] = "terminating"]
  /\ UNCHANGED <<textVars, now, rateVars, sweepVars, job, files, tempfs, temp_dirs,
                 conversion_stats, refGenerated>>

\* the terminated process is gone: line 332 raises TimeoutExpired
Terminated(j) ==
  /\ pc[j] = "terminating"
  /\ Finish(j, job[j],
            Outcome(1, TRUE, Exists(files, job[j].output_path)),
            files, tempfs, temp_dirs)
  /\ UNCHANGED <<textVars, now, rateVars, sweepVars, refGenerated>>

\* the clock advances; a process that has used up its timeout is terminated
\* before it does
Tick ==
  /\ now < MaxTime
  /\ \A j \in Jobs :
       /\ pc[j] = "running" => now - Started(j) < PROC_TIMEOUT
       /\ pc[j] # "terminating"
  /\ now' = now + 1
  /\ UNCHANGED <<textVars, rateVars, convVars, files, sweepVars>>

(***************************************************************************)
(* EnhancedConverter.cleanup_old_files (converter.py 454-525)              *)
(***************************************************************************)
\* count is cleaned_count; deleted is history: the files that the sweep has
\* removed
NoSweep ==
  [active |-> FALSE, cutoff |-> 0, todo |-> {}, count |-> 0, deleted |-> 0]

\* a conversion's pandoc is writing to path p
BeingWritten(p) ==
  \E j \in Jobs : pc[j] \in {"running", "terminating"} /\ job[j].output_path = p

\* line 515: mod_time < cutoff_time
OldEnough(mtime, cutoff) == mtime < cutoff

\* lines 456-481: the cutoff, and one _cleanup_file task per file of OUT_DIR
\* (called by admin_cleanup, schedule_cleanup and startup_event)
cleanup_old_files ==
  /\ ~sweep.active
  /\ LET todo == {p \in DOMAIN files : InOutDir(p)}
     IN sweep' = [active |-> todo # {},
                  cutoff |-> now - MAX_FILE_AGE_HOURS,
                  todo |-> todo, count |-> 0, deleted |-> 0]
  /\ UNCHANGED <<textVars, now, rateVars, convVars, files, sweepLog>>

\* lines 486-489: if result: cleaned_count += 1, where result is the size
\* that _cleanup_file returns for the file it removed (line 519)
Counted(size) == size # 0

\* _cleanup_file(entry, cutoff_time) (509-525) for the entry of path p, and
\* the count of its result (486-489); the sweep ends with its last task
cleanup_file(p) ==
  /\ sweep.active
  /\ p \in sweep.todo
  /\ LET del == Exists(files, p) /\ OldEnough(files[p].mtime, sweep.cutoff)
         rest == sweep.todo \ {p}
     IN /\ files' = IF del THEN Remove(files, {p}) ELSE files
        /\ sweep' = [sweep EXCEPT !.todo = rest,
                                  !.active = rest # {},
                                  !.count =
                                     IF del /\ Counted(files[p].size)
                                       THEN @ + 1 ELSE @,
                                  !.deleted = IF del THEN @ + 1 ELSE @]
        /\ sweepLog' = IF del
                         THEN sweepLog \cup
                                {[path |-> p,
                                  old |-> files[p].mtime < sweep.cutoff,
                                  writing |-> BeingWritten(p)]}
                         ELSE sweepLog
  /\ UNCHANGED <<textVars, now, rateVars, convVars>>

\* somebody other than the service puts a file into OUT_DIR
ForeignFile(size) ==
  /\ ~Exists(files, Foreign)
  /\ files' = Write(files, Foreign,
                    [mtime |-> now, by |-> 0, whole |-> TRUE, size |-> size])
  /\ UNCHANGED <<textVars, now, rateVars, convVars, sweepVars>>

(***************************************************************************)
(* Text (app/utils/text_processor.py).  A text is the sequence of its      *)
(* characters; a character outside ASCII is written as its code point.     *)
(***************************************************************************)
UpperCase ==
  <<"A", "B", "C", "D", "E", "F", "G", "H", "I", "J", "K", "L", "M", "N",
    "O", "P", "Q", "R", "S", "T", "U", "V", "W", "X", "Y", "Z">>
LowerCase ==
  <<"a", "b", "c", "d", "e", "f", "g", "h", "i", "j", "k", "l", "m", "n",
    "o", "p", "q", "r", "s", "t", "u", "v", "w", "x", "y", "z">>
Digit == {"0", "1", "2", "3", "4", "5", "6", "7", "8", "9"}
Range(f) == {f[i] : i \in DOMAIN f}

\* [A-Za-z0-9] (lines 25 and 82)
latin_chars == Range(UpperCase) \cup Range(LowerCase) \cup Digit

\* farsi_chars (line 22)
farsi_chars ==
  {"U+067E", "U+0686", "U+0698", "U+06AF", "U+06BE", "U+06CC", "U+0621",
    "U+0622", "U+0623", "U+0624", "U+0625", "U+0626", "U+0627", "U+0628",
    "U+0629", "U+062A", "U+062B", "U+062C", "U+062D", "U+062E", "U+062F",
    "U+0630", "U+0631", "U+0632", "U+0633", "U+0634", "U+0635", "U+0636",
    "U+0637", "U+0638", "U+0639", "U+063A", "U+0641", "U+0642", "U+0643",
    "U+0644", "U+0645", "U+0646", "U+0647", "U+0648", "U+0649", "U+064A"}

\* \s of the module re, and the characters str.strip() removes
Space == {" ", "\t", "\n", "\r", "\f"}

\* letters that are none of the above: the Persian kaf U+06A9 and the
\* letters of the strings that lines 48-63 put into a text
OtherLetters ==
  {"U+06A9", "U+00D8", "U+0152", "U+0178", "U+00D9", "U+00AA", "U+00C2",
    "U+00E2", "U+00B9", "U+00BA"}

\* \w of the module re
Word == latin_chars \cup {"_"} \cup farsi_chars \cup OtherLetters

\* the character and its other case, as re.IGNORECASE matches it
Ci(c) ==
  {c} \cup {LowerCase[i] : i \in {k \in DOMAIN UpperCase : UpperCase[k] = c}}
      \cup {UpperCase[i] : i \in {k \in DOMAIN LowerCase : LowerCase[k] = c}}

(***************************************************************************)
(* Regular expressions as the source uses them: a pattern is a sequence    *)
(* of items, an item a class of characters with its repetition, or an      *)
(* assertion (\b, ^, $, a lookahead).  MatchAt is the backtracking search  *)
(* of re: greedy items give up characters one by one, lazy ones take them. *)
(***************************************************************************)
Item(S, neg, min, max) ==
  [kind |-> "class", cls |-> S, neg |-> neg, min |-> min, max |-> max,
   lazy |-> FALSE]
\* x, [^x], x{min,}, [^x]{min,}, x{min,max}; max = -1: no upper limit
One(S) == Item(S, FALSE, 1, 1)
NotOne(S) == Item(S, TRUE, 1, 1)
Many(S, min) == Item(S, FALSE, min, -1)
NotMany(S, min) == Item(S, TRUE, min, -1)
Upto(S, min, max) == Item(S, FALSE, min, max)
\* x*? and the like
Lazy(e) == [e EXCEPT !.lazy = TRUE]
\* (?=x)
Ahead(e) == [e EXCEPT !.kind = "ahead"]
\* \b, ^ and $ (no pattern with ^ or $ is compiled with re.MULTILINE but
\* those of typography_rules, which have neither)
WordB == [One({}) EXCEPT !.kind = "b"]
Bol == [One({}) EXCEPT !.kind = "bol"]
Eol == [One({}) EXCEPT !.kind = "eol"]
\* the string w, letter by letter, under re.IGNORECASE
LitCi(w) == [i \in DOMAIN w |-> One(Ci(w[i]))]
Lit(w) == [i \in DOMAIN w |-> One({w[i]})]

In(c, e) == (c \in e.cls) # e.neg

\* the element of a set of one element. In The({F(v) : v \in {x}}) the
\* value of x is computed once, before F is applied to it, as Python
\* computes the value assigned to a variable
The(S) == CHOOSE y \in S : TRUE

Least(S) == CHOOSE x \in S : \A y \in S : x <= y
Greatest(S) == CHOOSE x \in S : \A y \in S : x >= y

\* how many characters from position i on are of the class of e
RunLen(e, s, i) ==
  LET others == {j \in i..Len(s) : ~In(s[j], e)}
  IN (IF others = {} THEN Len(s) + 1 ELSE Least(others)) - i

Cap(e, n) == IF e.max >= 0 /\ n > e.max THEN e.max ELSE n

WordBoundary(s, i) ==
  (i > 1 /\ s[i - 1] \in Word) # (i <= Len(s) /\ s[i] \in Word)

NoMatch == [ok |-> FALSE, ends |-> << >>]

RECURSIVE MatchAt(_, _, _, _)
\* items k.. of pattern re matched at position i of s: ends[n] is the
\* position after the n-th of these items. A repeated item takes the most
\* characters with which the rest of the pattern matches, a lazy one the
\* fewest
MatchAt(re, k, s, i) ==
  IF k > Len(re) THEN [ok |-> TRUE, ends |-> << >>]
  ELSE LET e == re[k]
           zero(holds) ==
             IF holds
               THEN LET r == MatchAt(re, k + 1, s, i)
                    IN [ok |-> r.ok, ends |-> <<i>> \o r.ends]
               ELSE NoMatch
       IN CASE e.kind = "b" -> zero(WordBoundary(s, i))
            [] e.kind = "ahead" -> zero(i <= Len(s) /\ In(s[i], e))
            [] e.kind = "bol" -> zero(i = 1)
            [] e.kind = "eol" -> zero(i = Len(s) + 1)
            [] OTHER ->
                 LET taken == {[c |-> c, rest |-> MatchAt(re, k + 1, s, i + c)] :
                                 c \in e.min..Cap(e, RunLen(e, s, i))}
                     counts == {t.c : t \in {u \in taken : u.rest.ok}}
                     c == IF e.lazy THEN Least(counts) ELSE Greatest(counts)
                     t == CHOOSE u \in taken : u.c = c
                 IN IF counts = {} THEN NoMatch
                    ELSE [ok |-> TRUE, ends |-> <<i + c>> \o t.rest.ends]

\* re.match(re, s)
Matches(re, s) == MatchAt(re, 1, s, 1).ok

\* the match m of a pattern at position i: where it ends, m.group(0), and
\* the text its k-th item took
End(m, i) == IF m.ends = << >> THEN i ELSE m.ends[Len(m.ends)]
Group(s, i, m, k) ==
  IF k = 0 THEN SubSeq(s, i, End(m, i) - 1)
  ELSE SubSeq(s, IF k = 1 THEN i ELSE m.ends[k - 1], m.ends[k] - 1)

\* a replacement: literal text and groups, one after the other
Text(w) == [lit |-> w, grp |-> -1]
Grp(k) == [lit |-> << >>, grp |-> k]

RECURSIVE Expand(_, _, _, _, _)
Expand(tpl, n, s, i, m) ==
  IF n > Len(tpl) THEN << >>
  ELSE (IF tpl[n].grp < 0 THEN tpl[n].lit ELSE Group(s, i, m, tpl[n].grp))
         \o Expand(tpl, n + 1, s, i, m)

\* the positions from i on where pattern re matches a text that is not empty
MatchesFrom(re, s, i) ==
  {j \in i..Len(s) : LET m == MatchAt(re, 1, s, j) IN m.ok /\ End(m, j) > j}

RECURSIVE SubFrom(_, _, _, _)
\* re.sub(re, tpl, s) from position i on: the leftmost matches, one after
\* the other (none of the patterns matches the empty text)
SubFrom(re, tpl, s, i) ==
  IF MatchesFrom(re, s, i) = {} THEN SubSeq(s, i, Len(s))
  ELSE LET j == Least(MatchesFrom(re, s, i))
           m == MatchAt(re, 1, s, j)
       IN SubSeq(s, i, j - 1) \o Expand(tpl, 1, s, j, m)
            \o SubFrom(re, tpl, s, End(m, j))

Sub(re, tpl, s) == SubFrom(re, tpl, s, 1)

(***************************************************************************)
(* Methods of str                                                          *)
(***************************************************************************)
StartsWith(s, p) == Len(p) <= Len(s) /\ SubSeq(s, 1, Len(p)) = p
\* p in s
Contains(s, p) ==
  \E i \in 1..(Len(s) - Len(p) + 1) : SubSeq(s, i, i + Len(p) - 1) = p

\* s.lstrip(), s.rstrip(), s.strip()
LStrip(s) ==
  LET kept == {i \in DOMAIN s : s[i] \notin Space}
  IN IF kept = {} THEN << >> ELSE SubSeq(s, Least(kept), Len(s))
RStrip(s) ==
  LET kept == {i \in DOMAIN s : s[i] \notin Space}
  IN IF kept = {} THEN << >> ELSE SubSeq(s, 1, Greatest(kept))
Strip(s) == RStrip(LStrip(s))

\* the positions from i on where old stands in s
Occurrences(s, old, i) ==
  {j \in i..(Len(s) - Len(old) + 1) : SubSeq(s, j, j + Len(old) - 1) = old}

RECURSIVE ReplaceFrom(_, _, _, _)
\* s.replace(old, new), old not empty
ReplaceFrom(s, old, new, i) ==
  IF Occurrences(s, old, i) = {} THEN SubSeq(s, i, Len(s))
  ELSE LET j == Least(Occurrences(s, old, i))
       IN SubSeq(s, i, j - 1) \o new \o ReplaceFrom(s, old, new, j + Len(old))
Replace(s, old, new) == ReplaceFrom(s, old, new, 1)

RECURSIVE SplitFrom(_, _)
\* s.split('\n'): the lines of s from position i on, i being the start of one
SplitFrom(s, i) ==
  IF Occurrences(s, <<"\n">>, i) = {} THEN <<SubSeq(s, i, Len(s))>>
  ELSE LET j == Least(Occurrences(s, <<"\n">>, i))
       IN <<SubSeq(s, i, j - 1)>> \o SplitFrom(s, j + 1)
Split(s) == SplitFrom(s, 1)

RECURSIVE Join(_)
\* '\n'.join(lines)
Join(lines) ==
  IF lines = << >> THEN << >>
  ELSE IF Len(lines) = 1 THEN lines[1]
  ELSE lines[1] \o <<"\n">> \o Join(Tail(lines))

(***************************************************************************)
(* EnhancedFarsiTextProcessor (text_processor.py)                          *)
(***************************************************************************)
\* persian_punctuation (lines 47-52), in the order of the dict; the values
\* are the two-character strings that the source file holds
persian_punctuation ==
  <<[latin |-> ",", persian |-> <<"U+00D8", "U+0152">>],
    [latin |-> ";", persian |-> <<"U+00D8", "U+203A">>],
    [latin |-> "?", persian |-> <<"U+00D8", "U+0178">>],
    [latin |-> "%", persian |-> <<"U+00D9", "U+00AA">>]>>

\* the class of characters between [ and ] in lines 57, 58, 322 and 323,
\* but for the ! of the last two
PunctClass == {"U+00D8", "U+0152", "U+203A", "U+0178", "U+00D9", "U+00AA"}

\* typography_rules (lines 55-64)
typography_rules ==
  <<[re |-> <<Many({" "}, 1), One(PunctClass)>>, tpl |-> <<Grp(2)>>],
    [re |-> <<One(PunctClass), Ahead(NotOne(Space))>>,
     tpl |-> <<Grp(1), Text(<<" ">>)>>],
    [re |-> <<Many({" "}, 1)>>, tpl |-> <<Text(<<" ">>)>>],
    [re |-> <<One({"\""}), NotMany({"\""}, 0), One({"\""})>>,
     tpl |-> <<Text(<<"U+00C2", "U+00AB">>), Grp(2),
               Text(<<"U+00C2", "U+00BB">>)>>],
    [re |-> <<One({"'"}), NotMany({"'"}, 0), One({"'"})>>,
     tpl |-> <<Text(<<"U+00E2", "U+20AC", "U+00B9">>), Grp(2),
               Text(<<"U+00E2", "U+20AC", "U+00BA">>)>>]>>

RECURSIVE ReplaceEach(_, _, _)
\* lines 173-174: text.replace(latin, persian) for every item of the dict
ReplaceEach(map, n, s) ==
  IF n > Len(map) THEN s
  ELSE ReplaceEach(map, n + 1, Replace(s, <<map[n].latin>>, map[n].persian))

RECURSIVE ApplyRules(_, _, _)
\* re.sub(pattern, replacement, text) for every rule, one after the other
ApplyRules(rules, n, s) ==
  IF n > Len(rules) THEN s
  ELSE The({ApplyRules(rules, n + 1, text) :
              text \in {Sub(rules[n].re, rules[n].tpl, s)}})

\* apply_persian_typography (lines 168-180)
apply_persian_typography(text) ==
  ApplyRules(typography_rules, 1, ReplaceEach(persian_punctuation, 1, text))

\* the substitutions of final_cleanup (lines 319-330)
cleanup_rules ==
  <<[re |-> <<One({"\n"}), Many(Space, 0), One({"\n"}), Many(Space, 0),
              One({"\n"}), Many(Space, 0), Many({"\n"}, 1)>>,
     tpl |-> <<Text(<<"\n", "\n">>)>>],
    [re |-> <<Many(Space, 1), One(PunctClass \cup {"!"})>>,
     tpl |-> <<Grp(2)>>],
    [re |-> <<One(PunctClass \cup {"!"}), Ahead(NotOne(Space))>>,
     tpl |-> <<Grp(1), Text(<<" ">>)>>],
    [re |-> <<Many(Space, 0), One({"("}), Many(Space, 0)>>,
     tpl |-> <<Text(<<" ", "(">>)>>],
    [re |-> <<Many(Space, 0), One({")"}), Many(Space, 0)>>,
     tpl |-> <<Text(<<")", " ">>)>>],
    [re |-> <<Many({" "}, 1)>>, tpl |-> <<Text(<<" ">>)>>]>>

\* final_cleanup (lines 314-332)
final_cleanup(text) == Strip(ApplyRules(cleanup_rules, 1, text))

\* \bword\b and \bword\s+word\b under re.IGNORECASE
Term(w) == <<WordB>> \o LitCi(w) \o <<WordB>>
Term2(w1, w2) ==
  <<WordB>> \o LitCi(w1) \o <<Many(Space, 1)>> \o LitCi(w2) \o <<WordB>>

\* ltr_terms (lines 28-44), each compiled with re.IGNORECASE (line 128):
\* the technical terms, v1.2, 1.2.3, a file extension, an e-mail address
\* and a URL
ltr_terms ==
  <<Term(<<"A", "P", "I">>),
    Term(<<"G", "r", "a", "p", "h">>),
    Term(<<"I", "n", "s", "t", "a", "g", "r", "a", "m">>),
    Term(<<"F", "a", "c", "e", "b", "o", "o", "k">>),
    Term(<<"n", "8", "n">>),
    Term2(<<"A", "c", "c", "e", "s", "s">>, <<"T", "o", "k", "e", "n">>),
    Term(<<"C", "r", "e", "d", "e", "n", "t", "i", "a", "l">>),
    Term(<<"W", "o", "r", "k", "f", "l", "o", "w">>),
    Term(<<"D", "a", "s", "h", "b", "o", "a", "r", "d">>),
    Term(<<"M", "e", "t", "a">>),
    Term2(<<"B", "u", "s", "i", "n", "e", "s", "s">>, <<"A", "c", "c", "o", "u", "n", "t">>),
    Term2(<<"P", "r", "o", "f", "e", "s", "s", "i", "o", "n", "a", "l">>, <<"A", "c", "c", "o", "u", "n", "t">>),
    Term(<<"A", "d", "m", "i", "n">>),
    Term(<<"S", "e", "t", "t", "i", "n", "g", "s">>),
    Term2(<<"A", "p", "p">>, <<"I", "D">>),
    Term2(<<"A", "p", "p">>, <<"S", "e", "c", "r", "e", "t">>),
    Term(<<"O", "A", "u", "t", "h">>),
    Term(<<"J", "S", "O", "N">>),
    Term(<<"X", "M", "L">>),
    Term(<<"H", "T", "M", "L">>),
    Term(<<"C", "S", "S">>),
    Term(<<"J", "a", "v", "a", "S", "c", "r", "i", "p", "t">>),
    Term(<<"P", "y", "t", "h", "o", "n">>),
    Term(<<"U", "R", "L">>),
    Term(<<"H", "T", "T", "P">>),
    Term(<<"H", "T", "T", "P", "S">>),
    Term(<<"G", "i", "t", "H", "u", "b">>),
    Term(<<"G", "o", "o", "g", "l", "e">>),
    <<WordB, One(Ci("v")), Many(Digit, 1), One({"."}), Many(Digit, 1), WordB>>,
    <<WordB, Many(Digit, 1), One({"."}), Many(Digit, 1), One({"."}),
      Many(Digit, 1), WordB>>,
    <<One({"."}), Upto(Word, 2, 4), WordB>>,
    <<WordB, Many(latin_chars \cup {".", "_", "%", "+", "-"}, 1), One({"@"}),
      Many(latin_chars \cup {".", "-"}, 1), One({"."}),
      Many(Range(UpperCase) \cup Range(LowerCase) \cup {"|"}, 2), WordB>>,
    LitCi(<<"h", "t", "t", "p">>) \o <<Upto(Ci("s"), 0, 1)>> \o Lit(<<":", "/", "/">>)
      \o <<NotMany(Space \cup {"<", ">", "\""}, 1)>> >>

SpanOpen == <<"<", "s", "p", "a", "n", " ", "d", "i", "r", "=", "\"", "l", "t", "r",
    "\"", ">">>
SpanClose == <<"<", "/", "s", "p", "a", "n", ">">>

\* line 126: the match inside a span of direction ltr
ltr_rules ==
  [n \in DOMAIN ltr_terms |->
     [re |-> ltr_terms[n],
      tpl |-> <<Text(SpanOpen), Grp(0), Text(SpanClose)>>]]

RECURSIVE SpanLoop(_, _, _, _, _)
\* the loop of detect_language_spans (lines 75-102) at character i, with
\* current_lang, current_start and the spans found so far; a span is
\* (span_text, language, start_pos, end_pos)
SpanLoop(text, i, current_lang, current_start, spans) ==
  LET span(to, lang) ==
        [text |-> SubSeq(text, current_start, to), lang |-> lang,
         start |-> current_start - 1, end |-> to]
  IN IF i > Len(text)
       THEN IF current_start <= Len(text)
                 /\ Strip(SubSeq(text, current_start, Len(text))) # << >>
              THEN Append(spans,
                          span(Len(text),
                               IF current_lang = None THEN "fa"
                                                      ELSE current_lang))
              ELSE spans
       ELSE LET char_lang == IF text[i] \in farsi_chars THEN "fa"
                             ELSE IF text[i] \in latin_chars THEN "en"
                             ELSE current_lang
                changed == char_lang # current_lang /\ current_lang # None
            IN SpanLoop(text, i + 1, char_lang,
                        IF changed THEN i ELSE current_start,
                        IF changed
                             /\ Strip(SubSeq(text, current_start, i - 1)) # << >>
                          THEN Append(spans, span(i - 1, current_lang))
                          ELSE spans)

\* a plausible slip: the first span taken to start at the second character
detect_language_spans_from_second(text) == SpanLoop(text, 1, None, 2, << >>)

\* detect_language_spans (lines 66-104)
detect_language_spans(text) == SpanLoop(text, 1, None, 1, << >>)

\* the patterns of lines 118 and 119: a fenced block, an inline code span
\* (U+0060 is the backtick)
FenceRe == Lit(<<"U+0060", "U+0060", "U+0060">>) \o <<Lazy(NotMany({}, 0))>> \o Lit(<<"U+0060", "U+0060", "U+0060">>)
InlineRe == <<One({"U+0060"}), NotMany({"U+0060", "\n"}, 1), One({"U+0060"})>>

DigitChar == <<"0", "1", "2", "3", "4", "5", "6", "7", "8", "9">>
RECURSIVE Decimal(_)
\* str(n)
Decimal(n) ==
  IF n < 10 THEN <<DigitChar[n + 1]>>
  ELSE Decimal(n \div 10) \o <<DigitChar[(n % 10) + 1]>>

\* line 115: the text that stands for protected block number n
Placeholder(n) ==
  <<"_", "_", "P", "R", "O", "T", "E", "C", "T", "E", "D", "_", "C", "O",
    "D", "E", "_">> \o Decimal(n) \o <<"_", "_">>

RECURSIVE ProtectFrom(_, _, _, _)
\* re.sub(re, protect_code, s) from position i on (lines 113-119): every
\* match goes to protected_blocks and its placeholder takes its place
ProtectFrom(re, s, i, protected_blocks) ==
  IF MatchesFrom(re, s, i) = {}
    THEN [text |-> SubSeq(s, i, Len(s)), blocks |-> protected_blocks]
  ELSE LET j == Least(MatchesFrom(re, s, i))
           m == MatchAt(re, 1, s, j)
           rest == ProtectFrom(re, s, End(m, j),
                               Append(protected_blocks, Group(s, j, m, 0)))
       IN [text |-> SubSeq(s, i, j - 1)
                      \o Placeholder(Len(protected_blocks)) \o rest.text,
           blocks |-> rest.blocks]

RECURSIVE Restore(_, _, _)
\* lines 163-164: text.replace(placeholder, block) for every block in turn
Restore(protected_blocks, n, s) ==
  IF n > Len(protected_blocks) THEN s
  ELSE Restore(protected_blocks, n + 1,
               Replace(s, Placeholder(n - 1), protected_blocks[n]))

RECURSIVE WrapSpans(_, _)
\* lines 149-155: the spans put together again, the English ones of more
\* than one character inside a span of direction ltr
WrapSpans(spans, n) ==
  IF n > Len(spans) THEN << >>
  ELSE (IF spans[n].lang = "en" /\ Len(Strip(spans[n].text)) > 1
          THEN SpanOpen \o spans[n].text \o SpanClose
          ELSE spans[n].text)
         \o WrapSpans(spans, n + 1)

\* the body of the loop over the lines (lines 135-158)
WrapLine(line) ==
  IF Strip(line) = << >> THEN line
  ELSE IF \/ Contains(line, <<"U+0060", "U+0060", "U+0060">>)
          \/ StartsWith(Strip(line), <<" ", " ", " ", " ">>)
          \/ Contains(line, <<"<", "s", "p", "a", "n", " ", "d", "i", "r", "=">>)
          \/ StartsWith(line, <<"#">>)
         THEN line
  ELSE LET spans == detect_language_spans(line)
       IN IF Len(spans) > 1 THEN WrapSpans(spans, 1) ELSE line

\* wrap_ltr_content (lines 106-166)
wrap_ltr_content(text) ==
  LET inline(fenced) == ProtectFrom(InlineRe, fenced.text, 1, fenced.blocks)
      terms(protected) ==
        [text |-> ApplyRules(ltr_rules, 1, protected.text),
         blocks |-> protected.blocks]
      lines(wrapped) ==
        [text |-> Join(The({[n \in DOMAIN l |-> WrapLine(l[n])] :
                              l \in {Split(wrapped.text)}})),
         blocks |-> wrapped.blocks]
      restore(mixed) == Restore(mixed.blocks, 1, mixed.text)
  IN The({restore(mixed) :
            mixed \in {lines(wrapped) :
              wrapped \in {terms(protected) :
                protected \in {inline(fenced) :
                  fenced \in {ProtectFrom(FenceRe, text, 1, << >>)}}}}})

\* unicodedata.normalize('NFKC', text) (line 290): of the characters of the
\* model, the feminine ordinal, superscript one and the masculine ordinal
\* have a compatibility form, every other one is its own
NFKC(text) ==
  [i \in DOMAIN text |->
     CASE text[i] = "U+00AA" -> "a"
       [] text[i] = "U+00B9" -> "1"
       [] text[i] = "U+00BA" -> "o"
       [] OTHER -> text[i]]

EndsWith(s, p) ==
  Len(p) <= Len(s) /\ SubSeq(s, Len(s) - Len(p) + 1, Len(s)) = p

\* lines 209-216: a line of a table
TableLine(line) ==
  LET opened == IF StartsWith(Strip(line), <<"|">>) THEN line
                ELSE <<"|", " ">> \o Strip(line)
      closed == IF EndsWith(Strip(opened), <<"|">>) THEN opened
                ELSE RStrip(opened) \o <<" ", "|">>
      bar == <<Many(Space, 0), One({"|"}), Many(Space, 0)>>
  IN Sub(bar \o <<Eol>>, <<Text(<<" ", "|">>)>>,
         Sub(<<Bol>> \o bar, <<Text(<<"|", " ">>)>>,
             Sub(bar, <<Text(<<" ", "|", " ">>)>>, closed)))

\* lines 221-228: a header, ^(#+)\s*(.*)$
HeaderLine(line) ==
  LET m == MatchAt(<<Bol, Many({"#"}, 1), Many(Space, 0),
                     NotMany({"\n"}, 0), Eol>>, 1, line, 1)
      title == Strip(Group(line, 1, m, 4))
  IN IF StartsWith(line, <<"#">>) /\ m.ok /\ title # << >>
       THEN Group(line, 1, m, 2) \o <<" ">> \o title
       ELSE line

\* lines 231-236: an item of a list
ListLine(line) ==
  LET bullet == <<Bol, Many(Space, 0), One({"-", "*", "+"})>>
      number == <<Bol, Many(Space, 0), Many(Digit, 1), One({"."})>>
  IN IF Matches(bullet \o <<One(Space)>>, line)
       THEN Sub(bullet \o <<Many(Space, 1)>>,
                <<Grp(2), Text(<<"-", " ">>)>>, line)
     ELSE IF Matches(number \o <<One(Space)>>, line)
       THEN Sub(number \o <<Many(Space, 1)>>,
                <<Grp(2), Grp(3), Text(<<".", " ">>)>>, line)
     ELSE line

RECURSIVE EnhanceLoop(_, _, _, _)
\* the loop of enhance_markdown_structure (lines 192-238) at line n
EnhanceLoop(lines, n, in_code_block, in_table) ==
  IF n > Len(lines) THEN << >>
  ELSE LET line == lines[n]
           table == Contains(line, <<"|">>)
                      /\ ~StartsWith(Strip(line), <<"#">>)
       IN IF StartsWith(Strip(line), <<"U+0060", "U+0060", "U+0060">>)
            THEN <<line>> \o EnhanceLoop(lines, n + 1, ~in_code_block, in_table)
          ELSE IF in_code_block
            THEN <<line>> \o EnhanceLoop(lines, n + 1, in_code_block, in_table)
          ELSE <<ListLine(HeaderLine(IF table THEN TableLine(line) ELSE line))>>
                 \o EnhanceLoop(lines, n + 1, in_code_block,
                                table \/ (in_table /\ Strip(line) # << >>))

\* enhance_markdown_structure (lines 182-240)
enhance_markdown_structure(text) ==
  Join(EnhanceLoop(Split(text), 1, FALSE, FALSE))

RECURSIVE EnhanceListsLoop(_, _, _, _)
\* the loop of _enhance_lists (lines 390-422) at line n; list_type is None
\* outside a list. re.sub(r'^\s*', indent, line) puts indent in the place of
\* the white space the line begins with, be it empty
EnhanceListsLoop(lines, n, in_list, list_type) ==
  IF n > Len(lines) THEN << >>
  ELSE LET line == lines[n]
           stripped == Strip(line)
           bullet == <<Bol, Many(Space, 0), One({"-", "*", "+"})>>
           number == <<Bol, Many(Space, 0), Many(Digit, 1), One({"."})>>
           indent == IF list_type = "unordered" THEN <<" ", " ">>
                     ELSE IF list_type = "ordered" THEN <<" ", " ", " ">>
                     ELSE << >>
       IN IF Matches(bullet \o <<One(Space)>>, line)
            THEN <<Sub(bullet \o <<Many(Space, 0)>>,
                       <<Grp(2), Grp(3), Text(<<" ">>)>>, line)>>
                   \o EnhanceListsLoop(lines, n + 1, TRUE, "unordered")
          ELSE IF Matches(number \o <<One(Space)>>, line)
            THEN <<Sub(number \o <<Many(Space, 0)>>,
                       <<Grp(2), Grp(3), Text(<<".", " ">>)>>, line)>>
                   \o EnhanceListsLoop(lines, n + 1, TRUE, "ordered")
          ELSE IF in_list /\ stripped # << >> /\ ~StartsWith(stripped, <<"#">>)
            THEN <<IF list_type = None THEN line
                   ELSE indent \o LStrip(line)>>
                   \o EnhanceListsLoop(lines, n + 1, in_list, list_type)
          ELSE <<line>> \o EnhanceListsLoop(lines, n + 1, FALSE, None)

\* _enhance_lists (lines 383-424), a method that no method of the class calls
enhance_lists(text) == Join(EnhanceListsLoop(Split(text), 1, FALSE, None))

\* lines 274-279
yaml_header ==
  <<"-", "-", "-", "\n", "l", "a", "n", "g", ":", " ", "f", "a", "\n", "d",
  "i", "r", ":", " ", "r", "t", "l", "\n", "-", "-", "-", "\n", "\n">>

\* add_rtl_metadata (lines 242-280)
add_rtl_metadata(text) ==
  LET lines == Split(text)
      dashes == <<"-", "-", "-">>
      ends == {i \in 2..Len(lines) : Strip(lines[i]) = dashes}
      yaml_end == Least(ends)
      yaml_section == SubSeq(lines, 2, yaml_end - 1)
      has(key) == \E i \in DOMAIN yaml_section : Contains(yaml_section[i], key)
  IN IF StartsWith(Strip(text), dashes) /\ ends # {}
       THEN Join(<<dashes>> \o yaml_section
                   \o (IF has(<<"l", "a", "n", "g", ":">>)
                         THEN << >> ELSE <<<<"l", "a", "n", "g", ":", " ", "f", "a">>>>)
                   \o (IF has(<<"d", "i", "r", ":">>)
                         THEN << >> ELSE <<<<"d", "i", "r", ":", " ", "r", "t", "l">>>>)
                   \o SubSeq(lines, yaml_end, Len(lines)))
       ELSE yaml_header \o text

\* the steps of preprocess_text (lines 289-305)
Steps == 1..6

RECURSIVE AfterStep(_, _)
\* the variable text of preprocess_text after its first k steps (lines
\* 289-305)
AfterStep(text, k) ==
  IF k = 0 THEN text
  ELSE The({CASE k = 1 -> NFKC(t)
              [] k = 2 -> add_rtl_metadata(t)
              [] k = 3 -> apply_persian_typography(t)
              [] k = 4 -> enhance_markdown_structure(t)
              [] k = 5 -> wrap_ltr_content(t)
              [] k = 6 -> final_cleanup(t) :
              t \in {AfterStep(text, k - 1)}})

\* preprocess_text (lines 282-312); failed is the step in which an exception
\* is raised, 0 when none is: the handler of line 310 returns the variable
\* text, which every step before has assigned
preprocess_text(text, failed) ==
  AfterStep(text, IF failed = 0 THEN Greatest(Steps) ELSE failed - 1)

\* preprocess_farsi_text (lines 638-648), on the global enhanced_processor
preprocess_farsi_text(text, failed) == preprocess_text(text, failed)

\* no function of text_processor.py has been called
NoCall == [fn |-> "none", failed |-> 0, arg |-> << >>, n |-> 0]

(***************************************************************************)
(* The service                                                             *)
(***************************************************************************)
\* the service after start-up
ServiceInit ==
  /\ now = 0
  /\ requests = [ip \in {} |-> << >>]
  /\ admitted = [ip \in Clients |-> [t \in Times |-> 0]]
  /\ lastCall = [ip |-> None, at |-> 0, limited |-> FALSE, retry |-> FALSE]
  /\ calls = [t \in Threads |-> IdleCall]
  /\ overlapped = FALSE
  /\ pc = [j \in Jobs |-> "idle"]
  /\ job = [j \in Jobs |-> IdleJob]
  /\ files = [p \in {} |-> 0]
  /\ tempfs = {}
  /\ temp_dirs = {}
  /\ conversion_stats = << >>
  /\ refGenerated = 0
  /\ sweep = NoSweep
  /\ sweepLog = {}

\* no document has been handed to the text processor
Init ==
  /\ ServiceInit
  /\ tin = << >>
  /\ tout = << >>
  /\ tcall = NoCall

\* pandoc and the clock
Process ==
  \/ \E j \in Jobs : PandocWrite(j)
  \/ \E j \in Jobs, rc \in {0, 1}, out \in BOOLEAN : PandocExit(j, rc, out)
  \/ \E j \in Jobs : Timeout(j)
  \/ \E j \in Jobs : Terminated(j)
  \/ Tick

\* requests to /api/convert
Next ==
  \/ \E j \in Jobs, ip \in Clients, f \in Formats, t \in Texts,
        exeMissing, refOk \in BOOLEAN :
       HttpRequest(j, ip, f, t, exeMissing, refOk)
  \/ Tick

Spec == Init /\ [][Next]_vars

\* scripts and tasks that call the converter
NextConv ==
  \/ \E j \in Jobs, f \in Formats, t \in Texts, exeMissing, refOk \in BOOLEAN :
       ScriptCall(j, f, t, exeMissing, refOk)
  \/ Process

SpecConv == Init /\ [][NextConv]_vars

\* tasks that await render_markdown_async with a text of their own
NextAsync ==
  \/ \E j \in Jobs, f \in Formats, t \in Texts \cup {Unencodable},
        exeMissing, refOk \in BOOLEAN :
       AsyncCall(j, f, t, exeMissing, refOk)
  \/ Process

SpecAsync == Init /\ [][NextAsync]_vars

\* render_markdown (converter.py 543-562) is synchronous: a caller has one
\* conversion in flight at a time
NoneInFlight == \A k \in Jobs : pc[k] \in {"idle", "done"}

\* one caller of the converter, the cleanup sweep and other users of OUT_DIR
NextSweep ==
  \/ \E j \in Jobs : NoneInFlight /\ ScriptCall(j, "docx", "ok", FALSE, TRUE)
  \/ Process
  \/ cleanup_old_files
  \/ \E p \in DOMAIN files : cleanup_file(p)
  \/ \E size \in {0, 1} : ForeignFile(size)

SpecSweep == Init /\ [][NextSweep]_vars

(***************************************************************************)
(* The rate limiter alone: calls of is_rate_limited and the clock          *)
(***************************************************************************)
RateCall(ip) ==
  /\ is_rate_limited(ip)
  /\ UNCHANGED <<textVars, now, convVars, files, sweepVars>>

NextRate ==
  \/ Tick
  \/ \E ip \in Clients : RateCall(ip)

SpecRate == Init /\ [][NextRate]_vars

\* the clock goes on and every client keeps calling: a request is a step of
\* its own on the event loop, which runs every callback that is ready
FairRate ==
  /\ Init /\ [][NextRate]_vars
  /\ WF_vars(Tick)
  /\ \A ip \in Clients : WF_vars(RateCall(ip))

(***************************************************************************)
(* The rate limiter called from threads: every statement of a call is a    *)
(* step of its own, and the clock may advance between any two              *)
(***************************************************************************)
\* the client whose requests the threads serve
RacingClient == "10.0.0.1"

NextRace ==
  \/ Tick
  \/ \E t \in Threads : \/ Enter(t, RacingClient)
                         \/ TestKnown(t)
                         \/ Create(t)
                         \/ Filter(t)
                         \/ Check(t)
                         \/ AppendNow(t)

SpecRace == Init /\ [][NextRace]_vars

\* conversions that start pandoc, and a process that, once terminated, ends
\* (await result.wait() returns): the signal of result.terminate() is not one
\* pandoc ignores
NextStarted ==
  \/ \E j \in Jobs : ScriptCall(j, "docx", "ok", FALSE, TRUE)
  \/ Process

FairConv ==
  Init /\ [][NextStarted]_vars /\ \A j \in Jobs : WF_vars(Terminated(j))

(***************************************************************************)
(* The text processor alone: a caller hands a document to one of its       *)
(* functions                                                               *)
(***************************************************************************)
\* the most blocks a document of the model has
MaxBlocks == 2

\* the blocks documents are made of: a Persian line, a technical term, mixed
\* lines, Latin punctuation, a line that ends with a space, a fenced code
\* block, a fence inside a line, a blank line
Blocks ==
  {<<"U+0633", "U+0644", "U+0627", "U+0645">>,
   <<"A", "P", "I">>,
   <<"U+0633", "U+0644", "U+0627", "U+0645", " ", "A", "P", "I">>,
   <<"U+0633", "U+0644", "U+0627", "U+0645", " ", "P", "y", "t", "h", "o", "n", " ", "c", "o", "d", "e">>,
   <<"a", ",", "b">>,
   <<"a", " ">>,
   <<"U+0060", "U+0060", "U+0060", "\n", "a", ",", "b", "\n", "U+0060", "U+0060", "U+0060">>,
   <<"U+0633", "U+0644", "U+0627", "U+0645", " ", "U+0060", "U+0060", "U+0060", "x", "U+0060", "U+0060", "U+0060", " ", "y">>,
   << >>}

RECURSIVE Documents(_)
\* the documents of n blocks, one block after the other on lines of their own
Documents(n) ==
  IF n = 1 THEN Blocks
  ELSE {d \o <<"\n">> \o b : d \in Documents(n - 1), b \in Blocks}

Inputs == UNION {Documents(n) : n \in 1..MaxBlocks}

InitText ==
  /\ ServiceInit
  /\ tin \in Inputs
  /\ tout = << >>
  /\ tcall = NoCall

\* a call of function fn with argument arg that returned result
Called(fn, failed, arg, result) ==
  /\ tout' = result
  /\ tcall' = [fn |-> fn, failed |-> failed, arg |-> arg, n |-> tcall.n + 1]
  /\ UNCHANGED <<tin, now, rateVars, convVars, files, sweepVars>>

\* preprocess_farsi_text(tin): failed is the step that raises, 0 for none
Preprocess(failed) ==
  /\ tcall = NoCall
  /\ Called("preprocess_farsi_text", failed, tin,
            preprocess_farsi_text(tin, failed))

\* preprocess_farsi_text on the text it has returned
Reprocess ==
  /\ tcall.fn = "preprocess_farsi_text" /\ tcall.failed = 0 /\ tcall.n = 1
  /\ Called("preprocess_farsi_text", 0, tout, preprocess_farsi_text(tout, 0))

\* enhanced_processor.wrap_ltr_content(tin)
WrapLtr ==
  /\ tcall = NoCall
  /\ Called("wrap_ltr_content", 0, tin, wrap_ltr_content(tin))

\* enhanced_processor.apply_persian_typography(tin)
Typography ==
  /\ tcall = NoCall
  /\ Called("apply_persian_typography", 0, tin, apply_persian_typography(tin))

\* enhanced_processor.final_cleanup(tin)
FinalCleanup ==
  /\ tcall = NoCall
  /\ Called("final_cleanup", 0, tin, final_cleanup(tin))

NextText ==
  \/ \E failed \in {0} \cup Steps : Preprocess(failed)
  \/ Reprocess
  \/ WrapLtr
  \/ Typography
  \/ FinalCleanup

SpecText == InitText /\ [][NextText]_vars

(***************************************************************************)
(* The structure step alone: a caller hands a text to                      *)
(* enhance_markdown_structure or to _enhance_lists                         *)
(***************************************************************************)
\* the longest line of the table texts
MaxLine == 3

\* the sequences of at most n elements of A
Seqs(A, n) == UNION {[1..k -> A] : k \in 0..n}

Fence == <<"U+0060", "U+0060", "U+0060">>
\* the line inside a fenced code block
Fenced(line) == Fence \o <<"\n">> \o line \o <<"\n">> \o Fence

\* lines of a letter, pipes, spaces and number signs, bare and fenced
TableTexts ==
  Seqs({"a", "|", " ", "#"}, MaxLine)
    \cup {Fenced(line) : line \in Seqs({"a", "|", " "}, MaxLine - 1)}

\* the lines of the list texts: items with a bullet or a number, plain
\* lines, a blank line, a header
ListLines ==
  {<<"-", " ", "a">>, <<"*", " ", " ", "a">>, <<"1", ".", " ", "a">>,
   <<"b">>, <<" ", "b">>, << >>, <<"#", " ", "h">>}

\* the texts of one, two or three of these lines
ListTexts ==
  ListLines
    \cup {k \o <<"\n">> \o l : k \in ListLines, l \in ListLines}
    \cup {k \o <<"\n">> \o l \o <<"\n">> \o m :
            k \in ListLines, l \in ListLines, m \in ListLines}

\* a call of function fn with the text x that returned result
CalledWith(fn, x, result) ==
  /\ tin' = x
  /\ tout' = result
  /\ tcall' = [fn |-> fn, failed |-> 0, arg |-> x, n |-> tcall.n + 1]
  /\ UNCHANGED <<now, rateVars, convVars, files, sweepVars>>

\* enhanced_processor.enhance_markdown_structure(x), step 4 of preprocess_text
Structure(x) ==
  /\ tcall = NoCall
  /\ CalledWith("enhance_markdown_structure", x, enhance_markdown_structure(x))

\* enhanced_processor._enhance_lists(x)
EnhanceLists(x) ==
  /\ tcall = NoCall
  /\ CalledWith("_enhance_lists", x, enhance_lists(x))

NextStructure ==
  \/ \E x \in TableTexts \cup ListTexts : Structure(x)
  \/ \E x \in ListTexts : EnhanceLists(x)

SpecStructure == Init /\ [][NextStructure]_vars

(***************************************************************************)
(* detect_language_spans alone: a caller hands it a line                   *)
(***************************************************************************)
\* the longest line handed to detect_language_spans
MaxSpanLine == 4

\* lines of a Persian letter, a Latin letter, a digit, a space and a full
\* stop
SpanLines == Seqs({"U+0633", "a", "1", " ", "."}, MaxSpanLine)

\* enhanced_processor.detect_language_spans(x); the spans are what it returns
Spans(x) ==
  /\ tcall = NoCall
  /\ CalledWith("detect_language_spans", x, detect_language_spans(x))

NextSpans == \E x \in SpanLines : Spans(x)

SpecSpans == Init /\ [][NextSpans]_vars

(***************************************************************************)
(* wrap_ltr_content alone: a caller hands it a text with technical terms   *)
(***************************************************************************)
\* an acronym, a version string, an e-mail address, a URL, a file name, a
\* Persian word and inline code
WrapTerms ==
  {<<"A", "P", "I">>,
   <<"v", "1", ".", "2", "5">>,
   <<"a", "@", "b", ".", "c", "o">>,
   <<"h", "t", "t", "p", ":", "/", "/", "a", ".", "b">>,
   <<"f", "i", "l", "e", ".", "t", "x", "t">>,
   <<"U+0633", "U+0644", "U+0627", "U+0645">>,
   <<"U+0060", "x", "U+0060">>}

\* one of them, or two on one line or on two
WrapTexts ==
  WrapTerms \cup {a \o sep \o b : a \in WrapTerms, b \in WrapTerms,
                                   sep \in {<<" ">>, <<"\n">>}}

\* enhanced_processor.wrap_ltr_content(x)
WrapTerm(x) ==
  /\ tcall = NoCall
  /\ CalledWith("wrap_ltr_content", x, wrap_ltr_content(x))

NextWrap == \E x \in WrapTexts : WrapTerm(x)

SpecWrap == Init /\ [][NextWrap]_vars

(***************************************************************************)
(* add_rtl_metadata alone: a caller hands it a document, and then what it  *)
(* returned                                                                *)
(***************************************************************************)
\* the most lines a document handed to add_rtl_metadata has
MaxMetaLines == 3

\* the lines of these documents: the delimiter of front matter, a lang and
\* a dir entry, an entry of another key, a line of text, a blank line
MetaLines ==
  {<<"-", "-", "-">>,
   <<"l", "a", "n", "g", ":", " ", "e", "n">>,
   <<"d", "i", "r", ":", " ", "l", "t", "r">>,
   <<"s", "u", "b", "d", "i", "r", ":", " ", "x">>,
   <<"x">>,
   << >>}

RECURSIVE MetaTexts(_)
\* the documents of n lines
MetaTexts(n) ==
  IF n = 1 THEN MetaLines
  ELSE {d \o <<"\n">> \o l : d \in MetaTexts(n - 1), l \in MetaLines}

\* enhanced_processor.add_rtl_metadata(x)
Metadata(x) ==
  /\ tcall = NoCall
  /\ CalledWith("add_rtl_metadata", x, add_rtl_metadata(x))

\* add_rtl_metadata on the text it has returned
MetadataAgain ==
  /\ tcall.fn = "add_rtl_metadata" /\ tcall.n = 1
  /\ CalledWith("add_rtl_metadata", tout, add_rtl_metadata(tout))

NextMeta ==
  \/ \E n \in 1..MaxMetaLines : \E x \in MetaTexts(n) : Metadata(x)
  \/ MetadataAgain

SpecMeta == Init /\ [][NextMeta]_vars

(***************************************************************************)
(* Properties                                                              *)
(***************************************************************************)
RECURSIVE SumOver(_, _)
SumOver(f, S) ==
  IF S = {} THEN 0
  ELSE LET x == CHOOSE y \in S : TRUE IN f[x] + SumOver(f, S \ {x})

\* the calls of ip admitted with a timestamp in the window (t - Minute, t]
AdmittedIn(ip, t) ==
  SumOver(admitted[ip], {u \in Times : t - Minute < u /\ u <= t})

\* C1: for every client and every window of one minute, at most RATE_LIMIT
\* of the client's calls with a timestamp in the window were admitted
C1_RateWindow ==
  \A ip \in Clients, t \in Times : AdmittedIn(ip, t) <= RATE_LIMIT

\* C1, its case: a call was rejected while the window of its client was full
C1_Witness ==
  /\ lastCall.ip # None
  /\ lastCall.limited
  /\ AdmittedIn(lastCall.ip, lastCall.at) = RATE_LIMIT

InFlight(j) == pc[j] \in {"running", "terminating"}

\* C2: once a call of render_markdown_async has returned or raised, its
\* workspace is neither on disk nor tracked; the workspaces on disk and the
\* tracked ones are those of the calls in flight
C2_WorkspaceDeleted ==
  /\ \A j \in Jobs :
       pc[j] = "done" =>
         /\ job[j].temp_dir \notin tempfs
         /\ job[j].temp_dir \notin temp_dirs
  /\ tempfs = {job[j].temp_dir : j \in {k \in Jobs : InFlight(k)}}
  /\ temp_dirs = tempfs

\* C2, its case: calls that created a workspace have ended on the timeout
\* path and on the unsupported-format path
C2_Witness ==
  /\ \E j \in Jobs :
       pc[j] = "done" /\ job[j].temp_dir # 0 /\ job[j].exc = "TimeoutExpired"
  /\ \E j \in Jobs :
       pc[j] = "done" /\ job[j].temp_dir # 0 /\ job[j].exc = "ValueError"

ToolErrors == {"TimeoutExpired", "CalledProcessError", "FileNotFoundError"}

\* C3: after an attempt that failed on a timeout, a non-zero exit status or
\* a missing executable, no file exists at the attempt's output path and no
\* path was returned
C3_NoOutputLeft ==
  \A j \in Jobs :
    (pc[j] = "done" /\ job[j].exc \in ToolErrors) =>
      /\ ~Exists(files, job[j].output_path)
      /\ job[j].result = NoPath

\* a request rejected by the handler's own checks in this step
Rejected(j) ==
  /\ pc[j] = "idle"
  /\ pc'[j] = "done"
  /\ job'[j].response.status \in {400, 413}
  /\ job'[j].exc = None

\* C4 as stated: a request rejected for its format (400) or its size (413)
\* writes no file, starts no converter and changes no shared state
C4_NoSideEffects ==
  [][\A j \in Jobs :
       Rejected(j) =>
         /\ files' = files
         /\ tempfs' = tempfs /\ temp_dirs' = temp_dirs
         /\ conversion_stats' = conversion_stats
         /\ refGenerated' = refGenerated
         /\ \A k \in Jobs \ {j} : pc'[k] = pc[k] /\ job'[k] = job[k]
         /\ requests' = requests]_vars

\* C4 as amended: such a request writes no file, starts no converter and
\* changes no shared state but the rate-limit table, where its client's list
\* has got the timestamp of the request
C4_OnlyRateTable ==
  [][\A j \in Jobs :
       Rejected(j) =>
         /\ files' = files
         /\ tempfs' = tempfs /\ temp_dirs' = temp_dirs
         /\ conversion_stats' = conversion_stats
         /\ refGenerated' = refGenerated
         /\ \A k \in Jobs \ {j} : pc'[k] = pc[k] /\ job'[k] = job[k]
         /\ \E ip \in Clients :
              requests' = (ip :> Append(Recent(ip), now)) @@ requests]_vars

\* C4, its case: one request was rejected for its size and one for its format
C4_Witness ==
  /\ \E j \in Jobs : pc[j] = "done" /\ job[j].response.status = 413
  /\ \E j \in Jobs :
       pc[j] = "done" /\ job[j].response.status = 400 /\ job[j].exc = None

\* C5: two conversions in flight at the same time have different output
\* paths, and the document a conversion returns is the one its own pandoc
\* wrote
C5_DisjointPaths ==
  /\ \A j, k \in Jobs :
       (j # k /\ InFlight(j) /\ InFlight(k)) =>
         job[j].output_path # job[k].output_path
  /\ \A j \in Jobs :
       (pc[j] = "done" /\ job[j].exc = None /\ job[j].ran) => job[j].served = j

\* the names the service generates: {uid}.md, {uid}.docx and
\* output_{timestamp}.docx
GeneratedName(p) == p.k \in {"md", "docx", "output"}

\* C6: the sweep deletes only files with a generated name that are older
\* than the cutoff and that no conversion is writing
C6_SweepDeletesOnly ==
  \A d \in sweepLog :
    /\ GeneratedName(d.path)
    /\ d.old
    /\ ~d.writing

\* C7: a process is terminated only when it has used up its timeout; from
\* then on the call can only raise TimeoutExpired, returning no path; and it
\* does raise it
C7_TimeoutFails ==
  /\ [][\A j \in Jobs :
          /\ (pc[j] # "terminating" /\ pc'[j] = "terminating") =>
               (pc[j] = "running" /\ now - Started(j) >= PROC_TIMEOUT)
          /\ pc[j] = "terminating" =>
               \/ pc'[j] = "terminating"
               \/ /\ pc'[j] = "done"
                  /\ job'[j].exc = "TimeoutExpired"
                  /\ job'[j].result = NoPath]_vars
  /\ \A j \in Jobs :
       (pc[j] = "terminating") ~>
         (pc[j] = "done" /\ job[j].exc = "TimeoutExpired")

\* C7, its case: a call has raised TimeoutExpired after pandoc had written
\* part of its output
C7_Witness ==
  \E j \in Jobs :
    /\ pc[j] = "done"
    /\ job[j].exc = "TimeoutExpired"
    /\ Exists(files, job[j].output_path)

\* C8: over any sequence of conversions the reference document is generated
\* at most once
C8_ReferenceOnce == refGenerated <= 1

\* C9: after an error other than a format-validation error during the
\* conversion of a request, the response is a 500 and neither the request's
\* markdown file nor its output file exists
C9_FilesRemoved ==
  \A j \in Jobs :
    (pc[j] = "done" /\ job[j].kind = "http"
       /\ job[j].exc \notin {None, "ValueError"}) =>
      /\ job[j].response.status = 500
      /\ ~Exists(files, md_file(j))
      /\ ~Exists(files, out_file(j))

GenericMessages ==
  {"Conversion failed due to an internal processing error.",
   "An unexpected error occurred during conversion.",
   "An unexpected internal error occurred."}

C11_PostProcessed ==
  \A j \in Jobs :
    (pc[j] = "done" /\ job[j].exc = None /\ job[j].result # NoPath) =>
      job[j].rtl_applied

\* the characters of class S in text s
Among(s, S) == {i \in DOMAIN s : s[i] \in S}

\* C13: when a step of preprocess_text raises, the text returned is the text
\* preprocess_text was called with
C13_ReturnsOriginal ==
  (tcall.fn = "preprocess_farsi_text" /\ tcall.failed \in Steps) =>
    tout = tcall.arg

\* straight quotes and the Latin punctuation that persian_punctuation names
Targeted == {"\"", "'"} \cup {persian_punctuation[n].latin :
                                n \in DOMAIN persian_punctuation}

\* C14: for a document with no straight quote and none of the targeted Latin
\* punctuation, preprocess_farsi_text applied to its own result returns that
\* result
C14_Idempotent ==
  (tcall.fn = "preprocess_farsi_text" /\ tcall.n = 2
     /\ Among(tin, Targeted) = {}) =>
    tout = tcall.arg

\* a text with no backtick
Plain(text) == "U+0060" \notin Range(text)

\* a line whose Persian and Latin characters are all of one of the two classes
OneClass(line) == Among(line, farsi_chars) = {} \/ Among(line, latin_chars) = {}

\* C15: wrap_ltr_content returns every line unchanged whose characters are
\* Persian or neutral only, or Latin or neutral only
C15_OneClassUnchanged ==
  (tcall.fn = "wrap_ltr_content" /\ Plain(tcall.arg)) =>
    \A n \in DOMAIN Split(tcall.arg) :
      OneClass(Split(tcall.arg)[n]) =>
        /\ n \in DOMAIN Split(tout)
        /\ Split(tout)[n] = Split(tcall.arg)[n]

\* a line with Persian and with Latin characters, every Latin character next
\* to another one
MixedRuns(line) ==
  /\ Among(line, farsi_chars) # {}
  /\ Among(line, latin_chars) # {}
  /\ \A i \in Among(line, latin_chars) :
       i - 1 \in Among(line, latin_chars) \/ i + 1 \in Among(line, latin_chars)

\* what is left of a line outside its spans of direction ltr
Outside(line) ==
  Sub(Lit(SpanOpen) \o <<Lazy(NotMany({}, 0))>> \o Lit(SpanClose), << >>, line)

\* C16: of a line that mixes Persian runs and Latin runs of more than one
\* character, wrap_ltr_content puts every Latin character inside a span of
\* direction ltr and no Persian character
C16_LatinRunsWrapped ==
  (tcall.fn = "wrap_ltr_content" /\ Plain(tcall.arg)) =>
    \A n \in DOMAIN Split(tcall.arg) :
      MixedRuns(Split(tcall.arg)[n]) =>
        /\ n \in DOMAIN Split(tout)
        /\ Among(Outside(Split(tout)[n]), latin_chars) = {}
        /\ Cardinality(Among(Outside(Split(tout)[n]), farsi_chars))
             = Cardinality(Among(Split(tcall.arg)[n], farsi_chars))

\* the fenced code blocks of a text, fences included
FencedBlocks(text) == Range(ProtectFrom(FenceRe, text, 1, << >>).blocks)

\* C17: every fenced code block of the text is in the result of
\* apply_persian_typography as it was
C17_FencesKeptByTypography ==
  tcall.fn = "apply_persian_typography" =>
    \A block \in FencedBlocks(tcall.arg) : Contains(tout, block)

\* C18: every fenced code block of the text is in the result of
\* wrap_ltr_content as it was
C18_FencesKeptByWrap ==
  tcall.fn = "wrap_ltr_content" =>
    \A block \in FencedBlocks(tcall.arg) : Contains(tout, block)

\* the Persian comma, semicolon, question mark and percent sign
PersianGlyph ==
  [c \in {",", ";", "?", "%"} |->
     CASE c = "," -> "U+060C" [] c = ";" -> "U+061B"
       [] c = "?" -> "U+061F" [] c = "%" -> "U+066A"]

\* C19: in the result of apply_persian_typography every comma, semicolon,
\* question mark and percent sign has become its Persian glyph, no glyph
\* comes after whitespace, and what comes after a glyph is whitespace, of
\* spaces one only
C19_PersianPunctuation ==
  tcall.fn = "apply_persian_typography" =>
    /\ \A c \in DOMAIN PersianGlyph :
         /\ Among(tout, {c}) = {}
         /\ Cardinality(Among(tout, {PersianGlyph[c]}))
              = Cardinality(Among(tcall.arg, {c, PersianGlyph[c]}))
    /\ \A i \in Among(tout, Range(PersianGlyph)) :
         /\ i > 1 => tout[i - 1] \notin Space
         /\ i < Len(tout) => tout[i + 1] \in Space
         /\ i + 1 < Len(tout) => ~(tout[i + 1] = " " /\ tout[i + 2] = " ")

\* the lines of a text that are not blank
NonBlank(text) == {n \in DOMAIN Split(text) : Strip(Split(text)[n]) # << >>}

\* C20: the result of final_cleanup has no three blank lines in a row and
\* no line that ends with whitespace, and as many lines that are not blank
\* as the text has
C20_BlankLinesAndLineEnds ==
  tcall.fn = "final_cleanup" =>
    /\ \A n \in DOMAIN Split(tout) :
         /\ Split(tout)[n] # << >> =>
              Split(tout)[n][Len(Split(tout)[n])] \notin Space
         /\ {n, n + 1, n + 2} \subseteq DOMAIN Split(tout) =>
              {n, n + 1, n + 2} \cap NonBlank(tout) # {}
    /\ Cardinality(NonBlank(tout)) = Cardinality(NonBlank(tcall.arg))


\* line n of lines is a fence line or lies after an odd number of them
InFence(lines, n) ==
  \/ StartsWith(Strip(lines[n]), Fence)
  \/ Cardinality({m \in 1..(n - 1) : StartsWith(Strip(lines[m]), Fence)}) % 2 = 1

\* r is a table row: it begins and ends with a pipe, a space stands on each
\* side of every pipe, and a cell that is not blank has one space before and
\* one after its text
Row(r) ==
  /\ r # << >> /\ r[1] = "|" /\ r[Len(r)] = "|"
  /\ \A i \in Among(r, {"|"}) :
       /\ i > 1 => r[i - 1] = " "
       /\ i < Len(r) => r[i + 1] = " "
  /\ \A i \in Among(r, {"|"}) : \A j \in Among(r, {"|"}) :
       (i < j /\ Among(SubSeq(r, i + 1, j - 1), {"|"}) = {}
          /\ Strip(SubSeq(r, i + 1, j - 1)) # << >>)
         => SubSeq(r, i + 1, j - 1)
              = <<" ">> \o Strip(SubSeq(r, i + 1, j - 1)) \o <<" ">>

\* C21: enhance_markdown_structure returns every line that has a pipe and is
\* not inside fenced code as a table row (a pipe first and last, one space on
\* each side of every pipe), and the lines inside fenced code as they were
C21_TableRows ==
  tcall.fn = "enhance_markdown_structure" =>
    LET lines == Split(tcall.arg)
        out == Split(tout)
    IN /\ Len(out) = Len(lines)
       /\ \A n \in DOMAIN lines :
            IF InFence(lines, n) THEN out[n] = lines[n]
            ELSE Contains(lines[n], <<"|">>) => Row(out[n])

\* the kind of list item that line is: "unordered", "ordered" or None
ItemKind(line) ==
  IF Matches(<<Bol, Many(Space, 0), One({"-", "*", "+"}), One(Space)>>, line)
    THEN "unordered"
  ELSE IF Matches(<<Bol, Many(Space, 0), Many(Digit, 1), One({"."}),
                    One(Space)>>, line)
    THEN "ordered"
  ELSE None

\* a blank line or a header: what resets the list
Resets(line) == Strip(line) = << >> \/ StartsWith(Strip(line), <<"#">>)

\* the items before line n with no blank line and no header after them
OpenItems(lines, n) ==
  {m \in 1..(n - 1) : /\ ItemKind(lines[m]) # None
                      /\ \A k \in (m + 1)..(n - 1) : ~Resets(lines[k])}

\* r is an item with one space between its marker and its content
OneSpaceItem(r) ==
  \E marker \in {<<One({"-", "*", "+"})>>, <<Many(Digit, 1), One({"."})>>} :
    \E rest \in {<<Ahead(NotOne(Space))>>, <<Eol>>} :
      Matches(<<Bol, Many(Space, 0)>> \o marker \o <<One({" "})>> \o rest, r)

\* the property of C22 for the lines in and what the call made of them
ListStateMachine(lines, out) ==
  /\ Len(out) = Len(lines)
  /\ \A n \in DOMAIN lines :
       CASE ItemKind(lines[n]) # None -> OneSpaceItem(out[n])
         [] ItemKind(lines[n]) = None /\ ~Resets(lines[n]) ->
              IF OpenItems(lines, n) = {} THEN out[n] = lines[n]
              ELSE out[n] =
                     (IF ItemKind(lines[Greatest(OpenItems(lines, n))]) = "unordered"
                        THEN <<" ", " ">> ELSE <<" ", " ", " ">>)
                       \o LStrip(lines[n])
         [] OTHER -> TRUE

\* C22: the list step of the normaliser gives an item one space between its
\* marker and its content, re-indents a plain line by 2 spaces after a
\* bulleted item and by 3 after a numbered one when an item has occurred
\* since the last blank line or header, and leaves other plain lines alone
C22_ListStateMachine ==
  tcall.fn = "enhance_markdown_structure" =>
    ListStateMachine(Split(tcall.arg), Split(tout))


\* how many times ts stands in list
Count(list, ts) == Cardinality({i \in DOMAIN list : list[i] = ts})

\* more than RATE_LIMIT calls of ip with a timestamp in one window were
\* admitted
OverAdmitted(ip) == \E t \in Times : AdmittedIn(ip, t) > RATE_LIMIT

\* the timestamp of an admitted call of ip, still within the last minute, is
\* missing from the client's list
TimestampLost(ip) ==
  \E ts \in Times :
    /\ ts > now - Minute
    /\ admitted[ip][ts] >
         (IF ip \in DOMAIN requests THEN Count(requests[ip], ts) ELSE 0)

\* C23: as long as no call of is_rate_limited has begun while another one
\* was in progress (each call runs without suspension), no window holds more
\* than RATE_LIMIT admitted calls and no appended timestamp is lost; the
\* witness is the state that interleaved calls reach, with both
C23_NoRaceWithoutSuspension ==
  ~overlapped => \A ip \in Clients : ~OverAdmitted(ip) /\ ~TimestampLost(ip)

\* C23, its case: calls interleaved statement by statement have admitted more
\* than RATE_LIMIT calls in one window and have lost a timestamp
C23_Witness ==
  /\ overlapped
  /\ OverAdmitted(RacingClient)
  /\ TimestampLost(RacingClient)


\* C24: the spans that detect_language_spans returns for a line that is not
\* blank partition it: the first starts at offset 0, each starts where the
\* one before ends, the last ends at the length of the line, the text of a
\* span is the line between its offsets, a span after the first begins with
\* a letter of its own class (a neutral character stays with the run before
\* it), every letter is in a span of its class, and two spans in a row
\* differ in class
C24_SpansPartition ==
  (tcall.fn = "detect_language_spans" /\ Strip(tcall.arg) # << >>) =>
    LET line == tcall.arg
        spans == tout
        class(c) == IF c \in farsi_chars THEN "fa"
                    ELSE IF c \in latin_chars THEN "en" ELSE None
    IN /\ Len(spans) >= 1
       /\ spans[1].start = 0
       /\ spans[Len(spans)].end = Len(line)
       /\ \A k \in DOMAIN spans :
            /\ spans[k].start < spans[k].end
            /\ spans[k].text = SubSeq(line, spans[k].start + 1, spans[k].end)
            /\ spans[k].lang \in {"fa", "en"}
            /\ \A i \in (spans[k].start + 1)..spans[k].end :
                 class(line[i]) \in {None, spans[k].lang}
            /\ k > 1 => /\ spans[k].start = spans[k - 1].end
                        /\ spans[k].lang # spans[k - 1].lang
                        /\ class(line[spans[k].start + 1]) = spans[k].lang

\* C24, its case: a line of both classes with a neutral character in it was
\* split into more than one span
C24_Witness ==
  /\ tcall.fn = "detect_language_spans"
  /\ Len(tout) >= 2
  /\ Among(tcall.arg, {" ", "."}) # {}


\* the places of text where p stands
Places(text, p) ==
  {i \in 1..(Len(text) - Len(p) + 1) : SubSeq(text, i, i + Len(p) - 1) = p}

\* no opening marker of text is followed by another one before a closing
\* marker
NotNested(text) ==
  \A o \in Places(text, SpanOpen) :
    LET later == {m \in Places(text, SpanOpen) \cup Places(text, SpanClose) :
                   m > o}
    IN later # {} /\ Least(later) \in Places(text, SpanClose)

\* the terms that one pattern of ltr_terms matches as a whole
WholeTerms ==
  {<<"A", "P", "I">>,
   <<"v", "1", ".", "2", "5">>,
   <<"a", "@", "b", ".", "c", "o">>,
   <<"h", "t", "t", "p", ":", "/", "/", "a", ".", "b">>}

\* C25: in what wrap_ltr_content returns no direction marker lies inside
\* another, and an acronym, a version string, an e-mail address or a URL of
\* the text is wrapped once, as a whole
C25_TermsWrappedOnce ==
  tcall.fn = "wrap_ltr_content" =>
    /\ NotNested(tout)
    /\ \A term \in WholeTerms :
         Contains(tcall.arg, term)
           => Contains(tout, SpanOpen \o term \o SpanClose)

\* the text without the direction markers
Unmarked(text) == Replace(Replace(text, SpanOpen, << >>), SpanClose, << >>)

\* C26: wrap_ltr_content only inserts markers: what it returns, with the
\* markers deleted, is the text it was given, inline code and fenced code
\* included
C26_OnlyInsertsMarkers ==
  tcall.fn = "wrap_ltr_content" => Unmarked(tout) = tcall.arg


\* the calls of render_markdown_async that have returned or raised
Completed == {j \in Jobs : pc[j] = "done" /\ job[j].ran}

\* C27: every call of render_markdown_async that has returned or raised has
\* appended one record, with success true exactly for the calls that
\* returned a path, so that in get_conversion_statistics successful plus
\* failed is total_conversions, the number of completed calls
C27_OneRecordPerCall ==
  /\ get_conversion_statistics.total_conversions = Cardinality(Completed)
  /\ get_conversion_statistics.successful
       = Cardinality({j \in Completed : job[j].result # NoPath})
  /\ get_conversion_statistics.successful + get_conversion_statistics.failed
       = get_conversion_statistics.total_conversions
  /\ \A j \in Completed :
       (job[j].exc = None) <=> (job[j].result # NoPath)


\* C28: a call is rejected exactly when RATE_LIMIT admitted calls of its
\* client lie within the minute before it, whatever the number of rejected
\* calls (these are not recorded); and a client that has been rejected, and
\* keeps calling while the clock goes on, is admitted again
C28_RetryAdmitted ==
  /\ [][\A ip \in Clients :
          RateCall(ip) =>
            /\ lastCall'.limited <=> (AdmittedIn(ip, now) >= RATE_LIMIT)
            /\ lastCall'.limited => requests'[ip] = Recent(ip)]_vars
  /\ \A ip \in Clients :
       (lastCall.ip = ip /\ lastCall.limited /\ lastCall.at + Minute <= MaxTime)
         ~> (lastCall.ip = ip /\ ~lastCall.limited)

\* C28, its case: a client whose call had just been rejected called again
\* and was admitted
C28_Witness ==
  /\ lastCall.ip # None
  /\ lastCall.retry
  /\ ~lastCall.limited


\* C29: what cleanup_old_files returns (cleaned_count, reported as
\* files_removed) is the number of files that the sweep has deleted, files
\* of size zero included
C29_CountsDeletedFiles == sweep.count = sweep.deleted


\* where the front matter of text ends: the first line after the first that
\* is the delimiter, 0 if the text does not begin with front matter
BlockEnd(text) ==
  LET lines == Split(text)
      ends == {i \in 2..Len(lines) : lines[i] = <<"-", "-", "-">>}
  IN IF lines # << >> /\ lines[1] = <<"-", "-", "-">> /\ ends # {}
       THEN Least(ends) ELSE 0

\* the lines of the front matter, and the text from its closing delimiter on
Block(text) == SubSeq(Split(text), 2, BlockEnd(text) - 1)
Body(text) == SubSeq(Split(text), BlockEnd(text), Len(Split(text)))

\* the entries of key in the lines of block
Entries(block, key) == {i \in DOMAIN block : StartsWith(Strip(block[i]), key)}

\* C30: what add_rtl_metadata returns begins with one block of front matter
\* that holds one lang entry and one dir entry; the lines of the front
\* matter of its input are kept, the rest of the document is unchanged, and
\* applied to its own result the function returns it as it is
C30_MetadataOnce ==
  tcall.fn = "add_rtl_metadata" =>
    /\ BlockEnd(tout) > 0
    /\ Cardinality(Entries(Block(tout), <<"l", "a", "n", "g", ":">>)) = 1
    /\ Cardinality(Entries(Block(tout), <<"d", "i", "r", ":">>)) = 1
    /\ IF BlockEnd(tcall.arg) > 0
         THEN /\ \A i \in DOMAIN Block(tcall.arg) :
                   Block(tout)[i] = Block(tcall.arg)[i]
              /\ Body(tout) = Body(tcall.arg)
         ELSE EndsWith(tout, tcall.arg)
    /\ tcall.n = 2 => tout = tcall.arg

====
